---- MODULE Spec2Model ----
(***************************************************************************)
(* Model of cargo-scan's audit-chain tool (src/src/bin/chain.rs): building *)
(* the dependency graph of a lockfile, walking it in DFS post-order and    *)
(* synthesizing one policy file per visited package.                       *)
(*                                                                         *)
(* A "{name}-{version}" string is modelled by an opaque package key; the   *)
(* lockfile lists every key at most once.  The policy file of key p lives  *)
(* at PolicyPath(p); all runs of one behaviour share one policy directory  *)
(* and one manifest path.                                                  *)
(*                                                                         *)
(* The module also models the effect data model (src/src/effect.rs:        *)
(* EffectInstance::new_call, EffectBlock) and the composed resolver        *)
(* (src/src/resolve.rs: FileResolver), each under a specification of its   *)
(* own: SpecEffect and SpecResolve.                                        *)
(***************************************************************************)
EXTENDS Integers, Sequences, FiniteSets, TLC

\* ---------------------------------------------------------------- bounds
MaxEdges == 4        \* declared dependencies in the whole lockfile
MaxPre == 1          \* output paths that hold something before the run
MaxEffects == 2      \* effects pushed into one EffectBlock
MaxDepth == 2        \* scopes open at once in the heuristic resolver
MaxWarnings == 2     \* fallback warnings written to stderr

\* the package keys ("{name}-{version}") and the order the lockfile lists them
NameOrder == <<"root", "b", "c", "d">>
Names == {NameOrder[i] : i \in 1..Len(NameOrder)}

\* what a policy path holds: nothing, a directory, or a saved PolicyFile
NoFile == [kind |-> "absent", pub_caller_checked |-> {}]
IsDir == [kind |-> "directory", pub_caller_checked |-> {}]
PolicyFile(pcc) == [kind |-> "file", pub_caller_checked |-> pcc]

None == 0            \* Option::None of a NodeIndex (indices start at 1)

VARIABLES
    packages,        \* lockfile.packages: Seq of [name, dependencies]
    root_name,       \* "{name}-{version}" of the crate at args.crate_path
    force_overwrite, \* args.force_overwrite
    disk,            \* policy path -> NoFile | IsDir | policy file content
    manifest,        \* the chain manifest on disk: NoFile or a saved chain
    chain,           \* AuditChain: package key -> policy path
    graph,           \* DiGraph: [nodes: Seq of keys, edges: Seq of <<from, to>>]
    package_map,     \* NodeIndex -> Package
    traverse,        \* DfsPostOrder: [stack, discovered, finished]
    pc,              \* position of the run
    err,             \* the error the run ended with ("" while there is none)
    synthesized,     \* keys handed to policy synthesis in this run, in order
    sinksArg,        \* key -> the sink set handed to its synthesis in this run
    written,         \* key -> policy content saved by this run
    process          \* the chain process: [exited, code, printed]

VARIABLES
    call,            \* the arguments of the last EffectInstance::new_call
    result,          \* what that call returned (an Option<EffectInstance>)
    block,           \* an EffectBlock
    built,           \* how the block was constructed: [ctor, fn_name, vis]
    removed          \* what filter_effects returned, and its inputs

VARIABLES
    fr,              \* a FileResolver: [resolver, backup]
    alone,           \* a HackyResolver that gets the same scope calls directly
    stderr,          \* the lines written by eprintln!
    answer           \* the last resolution: [op, arg, value]

chainVars == <<packages, root_name, force_overwrite, disk, manifest, chain, graph,
               package_map, traverse, pc, err, synthesized, sinksArg, written,
               process>>
effectVars == <<call, result, block, built, removed>>
resolverVars == <<fr, alone, stderr, answer>>

vars == <<chainVars, effectVars, resolverVars>>

\* ------------------------------------------------------------ helpers
Range(s) == {s[i] : i \in 1..Len(s)}

EmptyMap == [x \in {} |-> x]

\* format!("{}/{}-{}.policy", args.policy_path, name, version)
PolicyPath(p) == <<"policy", p>>

PolicyPaths == {PolicyPath(p) : p \in Names}

\* the one public function a package exports, as a CanonicalPath
PubFn(p) == <<p, "f">>

IsFile(f) == f.kind = "file"

\* ------------------------------------------------- make_dependency_graph
EmptyGraph == [nodes |-> <<>>, edges |-> <<>>, node_map |-> EmptyMap]

\* faulty variant: the contains_key test is dropped, every mention adds a node
AddNodeOnce_always(g, s) ==
    [g EXCEPT !.nodes = Append(@, s),
              !.node_map = (s :> (Len(g.nodes) + 1)) @@ @]

\* if !node_map.contains_key(&s) { graph.add_node(s); node_map.insert(s, idx) }
AddNodeOnce(g, s) ==
    IF s \in DOMAIN g.node_map
    THEN g
    ELSE [g EXCEPT !.nodes = Append(@, s),
                   !.node_map = @ @@ (s :> (Len(g.nodes) + 1))]

\* for dep in &p.dependencies { ...; graph.add_edge(p_idx, dep_idx, ()) }
RECURSIVE AddDeps(_, _, _)
AddDeps(g, p_idx, deps) ==
    IF deps = <<>>
    THEN g
    ELSE LET g1 == AddNodeOnce(g, Head(deps))
             dep_idx == g1.node_map[Head(deps)]
         IN  AddDeps([g1 EXCEPT !.edges = Append(@, <<p_idx, dep_idx>>)],
                     p_idx, Tail(deps))

\* for p in packages { ... }: returns [g, pm] (the graph and the package map)
RECURSIVE AddPackages(_, _, _)
AddPackages(g, pm, ps) ==
    IF ps = <<>>
    THEN [g |-> g, pm |-> pm]
    ELSE LET p == Head(ps)
             g1 == AddNodeOnce(g, p.name)
             p_idx == g1.node_map[p.name]
             pm1 == (p_idx :> p) @@ pm
         IN  AddPackages(AddDeps(g1, p_idx, p.dependencies), pm1, Tail(ps))

\* faulty variant: the root is taken to be the first node of the graph
make_dependency_graph_first(ps, root) ==
    LET r == AddPackages(EmptyGraph, EmptyMap, ps)
    IN  [graph |-> r.g,
         package_map |-> r.pm,
         root_idx |-> IF r.g.nodes # <<>> THEN 1 ELSE None]

\* root_idx is node_map.get(root_name).unwrap(): None stands for the panic
make_dependency_graph(ps, root) ==
    LET r == AddPackages(EmptyGraph, EmptyMap, ps)
    IN  [graph |-> r.g,
         package_map |-> r.pm,
         root_idx |-> IF root \in DOMAIN r.g.node_map
                      THEN r.g.node_map[root] ELSE None]

\* ------------------------------------------------------- DfsPostOrder
\* graph.neighbors(nx): the targets of nx's outgoing edges, newest edge first
RECURSIVE NeighborsFrom(_, _, _)
NeighborsFrom(edges, nx, i) ==
    IF i = 0 THEN <<>>
    ELSE IF edges[i][1] = nx
         THEN <<edges[i][2]>> \o NeighborsFrom(edges, nx, i - 1)
         ELSE NeighborsFrom(edges, nx, i - 1)

neighbors(g, nx) == NeighborsFrom(g.edges, nx, Len(g.edges))

\* for succ in graph.neighbors(nx) { if !discovered(succ) { stack.push(succ) } }
RECURSIVE PushUndiscovered(_, _, _)
PushUndiscovered(stack, succs, discovered) ==
    IF succs = <<>> THEN stack
    ELSE PushUndiscovered(
            IF Head(succs) \in discovered THEN stack ELSE Append(stack, Head(succs)),
            Tail(succs), discovered)

DfsPostOrderNew(start) ==
    [stack |-> <<start>>, discovered |-> {}, finished |-> {}]

\* DfsPostOrder::next: [node |-> the next node in post-order or None, t |-> walker]
RECURSIVE DfsNext(_, _)
DfsNext(g, t) ==
    IF t.stack = <<>>
    THEN [node |-> None, t |-> t]
    ELSE LET nx == t.stack[Len(t.stack)]
         IN  IF nx \notin t.discovered
             THEN DfsNext(g, [t EXCEPT
                      !.discovered = @ \cup {nx},
                      !.stack = PushUndiscovered(@, neighbors(g, nx),
                                                 t.discovered \cup {nx})])
             ELSE LET popped == [t EXCEPT !.stack = SubSeq(@, 1, Len(@) - 1)]
                  IN  IF nx \notin t.finished
                      THEN [node |-> nx,
                            t |-> [popped EXCEPT !.finished = @ \cup {nx}]]
                      ELSE DfsNext(g, popped)

\* ------------------------------------------------------ AuditChain
\* AuditChain::read_policy: the policy stored at the path registered for key
CanReadPolicy(ch, dsk, key) ==
    key \in DOMAIN ch /\ IsFile(dsk[ch[key]])

read_policy(ch, dsk, key) == dsk[ch[key]]

\* AuditChain::add_crate_policy
add_crate_policy(ch, key, path) == (key :> path) @@ ch

\* ------------------------------------------- collect_dependency_sinks
\* faulty variant: each dependency's set replaces the sinks collected so far
RECURSIVE ExtendSinks_replace(_, _, _, _)
ExtendSinks_replace(sinks, ch, dsk, deps) ==
    IF deps = <<>> THEN sinks
    ELSE ExtendSinks_replace(read_policy(ch, dsk, Head(deps)).pub_caller_checked,
                             ch, dsk, Tail(deps))

\* the loop body: sinks.extend(policy.pub_caller_checked)
RECURSIVE ExtendSinks(_, _, _, _)
ExtendSinks(sinks, ch, dsk, deps) ==
    IF deps = <<>> THEN sinks
    ELSE ExtendSinks(sinks \cup read_policy(ch, dsk, Head(deps)).pub_caller_checked,
                     ch, dsk, Tail(deps))

\* faulty variant: a dependency whose policy cannot be read is skipped
collect_dependency_sinks_skip(ch, dsk, deps) ==
    [ok |-> TRUE,
     sinks |-> ExtendSinks({}, ch, dsk,
                           SelectSeq(deps, LAMBDA d : CanReadPolicy(ch, dsk, d)))]

\* faulty variant: a failed read yields the empty sink set instead of the error
collect_dependency_sinks_default(ch, dsk, deps) ==
    IF \E i \in 1..Len(deps) : ~CanReadPolicy(ch, dsk, deps[i])
    THEN [ok |-> TRUE, sinks |-> {}]
    ELSE [ok |-> TRUE, sinks |-> ExtendSinks({}, ch, dsk, deps)]

\* [ok |-> FALSE] when some read_policy failed (the ? operator), else the set
collect_dependency_sinks(ch, dsk, deps) ==
    IF \E i \in 1..Len(deps) : ~CanReadPolicy(ch, dsk, deps[i])
    THEN [ok |-> FALSE, sinks |-> {}]
    ELSE [ok |-> TRUE, sinks |-> ExtendSinks({}, ch, dsk, deps)]

\* ------------------------------------------------------ make_new_policy
\* What the collaborators do during one call: which of them fails, if any
\* (at most one is reached).
IOs == {"none", "download", "synth", "save"}

\* packages whose public function performs an effect of its own
OwnEffects == {"b", "d"}

\* PolicyFile::new_caller_checked_default_with_sinks: the scan of package p
\* marks its public function caller-checked when it has an effect of its own
\* or calls a sink (every package calls what its dependencies export)
new_caller_checked_default_with_sinks(p, sinks) ==
    PolicyFile(IF p \in OwnEffects \/ sinks # {} THEN {PubFn(p)} ELSE {})

\* a policy file left at the path of p by an earlier run
StalePolicy(p) == PolicyFile({<<p, "stale">>})

Failed(dsk, e, sinks, called) ==
    [ok |-> FALSE, path |-> <<>>, disk |-> dsk, err |-> e,
     sinks |-> sinks, synth_called |-> called]

\* faulty variant: an existing file is removed whether or not force is set
ExistingPath_overwrite(f, force) ==
    IF f = IsDir THEN "Policy path is a directory"
    ELSE IF IsFile(f) THEN "remove"
    ELSE "free"

\* the checks of the target path: an error message, "remove" (remove_file is
\* called) or "free"
ExistingPath(f, force) ==
    IF f = IsDir THEN "Policy path is a directory"
    ELSE IF IsFile(f)
         THEN IF force THEN "remove" ELSE "Policy file already exists"
         ELSE "free"

make_new_policy(ch, dsk, package, root, force, io) ==
    LET policy_path == PolicyPath(package.name)
        check == ExistingPath(dsk[policy_path], force)
        dsk1 == IF check = "remove" THEN [dsk EXCEPT ![policy_path] = NoFile] ELSE dsk
        col == collect_dependency_sinks(ch, dsk1, package.dependencies)
    IN  IF package.name # root /\ io = "download"
        THEN Failed(dsk, "download_crate failed", {}, FALSE)
        ELSE IF check \notin {"remove", "free"}
        THEN Failed(dsk, check, {}, FALSE)
        ELSE IF ~col.ok
        THEN Failed(dsk1, "couldnt read dependency policy file", {}, FALSE)
        ELSE IF io = "synth"
        THEN Failed(dsk1, "policy synthesis failed", col.sinks, TRUE)
        ELSE IF io = "save"
        THEN Failed(dsk1, "save_to_file failed", col.sinks, TRUE)
        ELSE [ok |-> TRUE, path |-> policy_path,
              disk |-> [dsk1 EXCEPT ![policy_path] =
                          new_caller_checked_default_with_sinks(package.name, col.sinks)],
              err |-> "", sinks |-> col.sinks, synth_called |-> TRUE]

\* ------------------------------------------------------------ lockfiles
Listed(order, present) == SelectSeq(order, LAMBDA n : n \in present)

\* the lockfile listing the packages of `present` in `order`, each with the
\* dependencies that `edges` gives it
Lockfile(order, present, edges) ==
    LET ls == Listed(order, present)
    IN  [i \in 1..Len(ls) |->
            [name |-> ls[i],
             dependencies |-> SelectSeq(NameOrder, LAMBDA d : <<ls[i], d>> \in edges)]]

\* names are arbitrary: b, c, d are named by decreasing number of incident edges
Degree(E, n) == Cardinality({e \in E : e[1] = n \/ e[2] = n})

EdgeSets(present) ==
    {E \in SUBSET (present \X Names) :
        /\ Cardinality(E) <= MaxEdges
        /\ Degree(E, "b") >= Degree(E, "c")
        /\ Degree(E, "c") >= Degree(E, "d")}

\* every package is listed, or the entry of d or of the root is missing
Presents == {Names, Names \ {"d"}, Names \ {"root"}}

Lockfiles ==
    {Lockfile(NameOrder, present, edges) :
        present \in Presents, edges \in EdgeSets(Names)}

\* ----------------------------------------------------------------- Init
NoManifest == [exists |-> FALSE, chain |-> EmptyMap]
StaleManifest == [exists |-> TRUE, chain |-> ("stale" :> PolicyPath("root"))]
NoTraverse == [stack |-> <<>>, discovered |-> {}, finished |-> {}]

ManifestPath == <<"manifest">>

\* what the output paths hold before the run: at most MaxPre of them hold a
\* file of an earlier run, or (the policy paths) a directory
PreStates ==
    {f \in [PolicyPaths \cup {ManifestPath} -> {"absent", "file", "directory"}] :
        /\ f[ManifestPath] # "directory"
        /\ Cardinality({q \in DOMAIN f : f[q] # "absent"}) <= MaxPre}

InitArgs ==
    /\ root_name = "root"
    /\ force_overwrite \in BOOLEAN

InitDisk ==
    \E pre \in PreStates :
        /\ disk = [q \in PolicyPaths |->
                     CASE pre[q] = "absent" -> NoFile
                       [] pre[q] = "directory" -> IsDir
                       [] OTHER -> StalePolicy(q[2])]
        /\ manifest = IF pre[ManifestPath] = "file" THEN StaleManifest ELSE NoManifest

\* the parts of the state that a specification does not use stay as they are
EffectIdle ==
    /\ call = <<>>
    /\ result = <<>>
    /\ block = <<>>
    /\ built = <<>>
    /\ removed = <<>>

ResolverIdle ==
    /\ fr = <<>>
    /\ alone = <<>>
    /\ stderr = <<>>
    /\ answer = <<>>

Running == [exited |-> FALSE, code |-> 0, printed |-> <<>>]

InitRun ==
    /\ process = Running
    /\ EffectIdle
    /\ ResolverIdle
    /\ chain = EmptyMap
    /\ graph = EmptyGraph
    /\ package_map = EmptyMap
    /\ traverse = NoTraverse
    /\ pc = "start"
    /\ err = ""
    /\ synthesized = <<>>
    /\ sinksArg = EmptyMap
    /\ written = EmptyMap

Init ==
    /\ packages \in Lockfiles
    /\ InitArgs
    /\ InitDisk
    /\ InitRun

\* -------------------------------------------------------------- actions
\* create_new_audit_chain up to the construction of the walker; setup_ok is
\* whether the directories, the lockfile and Cargo.toml could be prepared
StartRun ==
    /\ pc = "start"
    /\ \E setup_ok \in BOOLEAN :
         LET r == make_dependency_graph(packages, root_name)
         IN  /\ chain' = EmptyMap
             /\ IF ~setup_ok
                THEN /\ pc' = "error"
                     /\ err' = "setup failed"
                     /\ UNCHANGED <<graph, package_map, traverse>>
                ELSE /\ graph' = r.graph
                     /\ package_map' = r.package_map
                     /\ IF r.root_idx = None
                        THEN /\ pc' = "panic"
                             /\ err' = "unwrap on None: root not in node_map"
                             /\ UNCHANGED traverse
                        ELSE /\ pc' = "traverse"
                             /\ err' = ""
                             /\ traverse' = DfsPostOrderNew(r.root_idx)
    /\ UNCHANGED <<process, effectVars, resolverVars, packages, root_name, force_overwrite, disk, manifest,
                   synthesized, sinksArg, written>>

\* faulty variant: the Err arm reports the error and goes on with the next node
LoopControl_continue(ok) == "traverse"

\* match make_new_policy(..) { Ok(..) => go on, Err(e) => return Err(..) }
LoopControl(ok) == IF ok THEN "traverse" ELSE "error"

\* one iteration of `while let Some(node) = traverse.next(&graph)`
VisitNode ==
    /\ pc = "traverse"
    /\ LET n == DfsNext(graph, traverse)
       IN  /\ n.node # None
           /\ traverse' = n.t
           /\ IF n.node \notin DOMAIN package_map
              THEN /\ pc' = "panic"
                   /\ err' = "unwrap on None: node not in package_map"
                   /\ UNCHANGED <<disk, chain, synthesized, sinksArg, written>>
              ELSE LET package == package_map[n.node]
                   IN  \E io \in IOs :
                       LET r == make_new_policy(chain, disk, package, root_name,
                                                force_overwrite, io)
                       IN  /\ disk' = r.disk
                           /\ synthesized' = IF r.synth_called
                                             THEN Append(synthesized, package.name)
                                             ELSE synthesized
                           /\ sinksArg' = IF r.synth_called
                                          THEN (package.name :> r.sinks) @@ sinksArg
                                          ELSE sinksArg
                           /\ pc' = LoopControl(r.ok)
                           /\ err' = r.err
                           /\ IF r.ok
                              THEN /\ chain' = add_crate_policy(chain, package.name, r.path)
                                   /\ written' = (package.name :> r.disk[r.path]) @@ written
                              ELSE UNCHANGED <<chain, written>>
    /\ UNCHANGED <<process, effectVars, resolverVars, packages, root_name, force_overwrite, manifest, graph,
                   package_map>>

\* the walker is exhausted: create_new_audit_chain returns Ok(chain)
FinishTraversal ==
    /\ pc = "traverse"
    /\ DfsNext(graph, traverse).node = None
    /\ pc' = "created"
    /\ traverse' = DfsNext(graph, traverse).t
    /\ UNCHANGED <<process, effectVars, resolverVars, packages, root_name, force_overwrite, disk, manifest, chain,
                   graph, package_map, err, synthesized, sinksArg, written>>

\* faulty variant: the manifest is saved although create_new_audit_chain failed
RunnerSave_on_error ==
    /\ pc \in {"created", "error"}
    /\ manifest' = [exists |-> TRUE, chain |-> chain]
    /\ pc' = "saved"
    /\ UNCHANGED <<process, effectVars, resolverVars, packages, root_name, force_overwrite, disk, chain, graph,
                   package_map, traverse, err, synthesized, sinksArg, written>>

\* runner: chain.save_to_file()?
RunnerSave ==
    /\ pc = "created"
    /\ \E save_ok \in BOOLEAN :
         IF save_ok
         THEN /\ manifest' = [exists |-> TRUE, chain |-> chain]
              /\ pc' = "saved"
              /\ UNCHANGED err
         ELSE /\ pc' = "error"
              /\ err' = "manifest save failed"
              /\ UNCHANGED manifest
    /\ UNCHANGED <<process, effectVars, resolverVars, packages, root_name, force_overwrite, disk, chain, graph,
                   package_map, traverse, synthesized, sinksArg, written>>

ExitSuccess == 0     \* main returns (): the process exits with status 0
PanicExit == 101     \* the status of a Rust process that panicked

\* main: match runner(args) { Ok(()) => (), Err(e) => println!("Error ..", e) }
\* outcome is how runner ended: "saved" (Ok), "error" (Err), "panic"
main(outcome, e) ==
    [exited |-> TRUE,
     code |-> IF outcome = "panic" THEN PanicExit ELSE ExitSuccess,
     printed |-> CASE outcome = "error" -> <<"Error running command: {}", e>>
                   [] outcome = "panic" -> <<"thread 'main' panicked", e>>
                   [] OTHER -> <<>>]

\* main after runner has returned (or unwound)
MainExit ==
    /\ pc \in {"saved", "error", "panic"}
    /\ ~process.exited
    /\ process' = main(pc, err)
    /\ UNCHANGED <<effectVars, resolverVars, packages, root_name,
                   force_overwrite, disk, manifest, chain, graph, package_map,
                   traverse, pc, err, synthesized, sinksArg, written>>

Next == StartRun \/ VisitNode \/ FinishTraversal \/ RunnerSave \/ MainExit

Spec == Init /\ [][Next]_vars

\* The same run over every order of the lockfile's package list, all packages
\* listed, into an empty policy directory.
ListOrders ==
    {s \in [1..Len(NameOrder) -> Names] :
        \A i, j \in 1..Len(NameOrder) : s[i] = s[j] => i = j}

LockfilesAnyOrder ==
    {Lockfile(order, Names, edges) :
        order \in ListOrders, edges \in EdgeSets(Names)}

InitAnyOrder ==
    /\ packages \in LockfilesAnyOrder
    /\ InitArgs
    /\ disk = [q \in PolicyPaths |-> NoFile]
    /\ manifest = NoManifest
    /\ InitRun

SpecAnyOrder == InitAnyOrder /\ [][Next]_vars

\* ======================================================= effect.rs
\* Option<T>: None is the empty tuple, Some(x) the tuple of x
NoneOpt == <<>>
Some(x) == <<x>>

\* CanonicalPaths of the scanned crate: callees, the caller, FFI declarations
Callees == {<<"libc", "open">>, <<"std", "fs", "read">>, <<"app", "helper">>}
Caller == <<"app", "main">>
FfiPaths == {<<"libc", "open">>}

\* the configured sink patterns, and the sets of them a scan may be given
SinkPatterns == {<<"libc">>, <<"std", "fs">>, <<"std", "fs", "read">>}
SinkSets == {{}, {<<"libc">>}, {<<"std", "fs">>, <<"std", "fs", "read">>}, SinkPatterns}

IsPrefix(pat, path) ==
    Len(pat) <= Len(path) /\ SubSeq(path, 1, Len(pat)) = pat

\* Sink::new_match: the longest pattern of sinks that is a prefix of callee
new_match(callee, sinks) ==
    LET ms == {pat \in sinks : IsPrefix(pat, callee)}
    IN  IF ms = {} THEN NoneOpt
        ELSE Some(CHOOSE pat \in ms : \A o \in ms : Len(o) <= Len(pat))

\* SrcLoc::from_span: the location of a span of the scanned file
SrcLocOf(span) == [dir |-> "src", file |-> "lib.rs", span |-> span]

\* faulty variant: the FFI marker is tested before the sink patterns
new_call_ffi_first(caller, callee, callsite, is_unsafe, ffi, sinks) ==
    LET pat == new_match(callee, sinks)
        eff_type == IF ffi # NoneOpt
                    THEN Some([tag |-> "FFICall", arg |-> ffi[1]])
                    ELSE IF pat # NoneOpt
                    THEN Some([tag |-> "SinkCall", arg |-> pat[1]])
                    ELSE IF is_unsafe
                    THEN Some([tag |-> "UnsafeCall", arg |-> callee])
                    ELSE NoneOpt
    IN  IF eff_type = NoneOpt THEN NoneOpt
        ELSE Some([caller |-> caller, call_loc |-> SrcLocOf(callsite),
                   callee |-> callee, eff_type |-> eff_type[1]])

\* faulty variant: the unsafe flag is tested before the FFI marker
new_call_unsafe_first(caller, callee, callsite, is_unsafe, ffi, sinks) ==
    LET pat == new_match(callee, sinks)
        eff_type == IF pat # NoneOpt
                    THEN Some([tag |-> "SinkCall", arg |-> pat[1]])
                    ELSE IF is_unsafe
                    THEN Some([tag |-> "UnsafeCall", arg |-> callee])
                    ELSE IF ffi # NoneOpt
                    THEN Some([tag |-> "FFICall", arg |-> ffi[1]])
                    ELSE NoneOpt
    IN  IF eff_type = NoneOpt THEN NoneOpt
        ELSE Some([caller |-> caller, call_loc |-> SrcLocOf(callsite),
                   callee |-> callee, eff_type |-> eff_type[1]])

\* EffectInstance::new_call
new_call(caller, callee, callsite, is_unsafe, ffi, sinks) ==
    LET pat == new_match(callee, sinks)
        eff_type == IF pat # NoneOpt
                    THEN Some([tag |-> "SinkCall", arg |-> pat[1]])
                    ELSE IF ffi # NoneOpt
                    THEN Some([tag |-> "FFICall", arg |-> ffi[1]])
                    ELSE IF is_unsafe
                    THEN Some([tag |-> "UnsafeCall", arg |-> callee])
                    ELSE NoneOpt
    IN  IF eff_type = NoneOpt THEN NoneOpt
        ELSE Some([caller |-> caller, call_loc |-> SrcLocOf(callsite),
                   callee |-> callee, eff_type |-> eff_type[1]])

\* impl From<&syn::Visibility> for Visibility
SynVisibilities == {"pub", "pub(crate)", "inherited"}
VisibilityFrom(vis) == IF vis = "pub" THEN "Public" ELSE "Private"

\* FnDec::new
FnDecNew(decl_span, fn_name, vis) ==
    [src_loc |-> SrcLocOf(decl_span), fn_name |-> fn_name,
     vis |-> VisibilityFrom(vis)]

\* EffectBlock::new_unsafe_expr
new_unsafe_expr(block_span, containing_fn) ==
    [src_loc |-> SrcLocOf(block_span), block_type |-> "UnsafeExpr",
     effects |-> <<>>, containing_fn |-> containing_fn]

\* EffectBlock::from_fn_decl
from_fn_decl(fn_decl) ==
    [src_loc |-> fn_decl.src_loc, block_type |-> "NormalFn",
     effects |-> <<>>, containing_fn |-> fn_decl]

\* EffectBlock::push_effect
push_effect(b, effect) == [b EXCEPT !.effects = Append(@, effect)]

\* EffectBlock::from_effect
from_effect(eff, containing_fn) == push_effect(from_fn_decl(containing_fn), eff)

\* EffectBlock::new_fn
new_fn(decl_span, fn_name, vis) ==
    [src_loc |-> SrcLocOf(decl_span), block_type |-> "NormalFn",
     effects |-> <<>>, containing_fn |-> FnDecNew(decl_span, fn_name, vis)]

\* EffectBlock::new_unsafe_fn (the source sets BlockType::NormalFn here)
new_unsafe_fn(decl_span, fn_name, vis) ==
    [src_loc |-> SrcLocOf(decl_span), block_type |-> "NormalFn",
     effects |-> <<>>, containing_fn |-> FnDecNew(decl_span, fn_name, vis)]

\* the predicates handed to filter_effects
Predicates == {"is_ffi", "is_unsafe_call", "has_pattern", "all", "none"}

Holds(f, e) ==
    CASE f = "is_ffi" -> e.eff_type.tag = "FFICall"
      [] f = "is_unsafe_call" -> e.eff_type.tag = "UnsafeCall"
      [] f = "has_pattern" -> e.eff_type.tag = "SinkCall"
      [] f = "all" -> TRUE
      [] OTHER -> FALSE

\* Iterator::partition(f): <<the items f accepts, the items f rejects>>
partition(items, f) ==
    <<SelectSeq(items, LAMBDA e : Holds(f, e)),
      SelectSeq(items, LAMBDA e : ~Holds(f, e))>>

\* faulty variant: self.effects is left as mem::take left it
filter_effects_taken(b, f) ==
    [block |-> [b EXCEPT !.effects = <<>>],
     returned |-> partition(b.effects, f)[2]]

\* EffectBlock::filter_effects: [block |-> self afterwards, returned |-> result]
filter_effects(b, f) ==
    LET parts == partition(b.effects, f)
    IN  [block |-> [b EXCEPT !.effects = parts[1]],
         returned |-> parts[2]]

\* --------------------------------------------------- effect.rs: actions
Constructors ==
    {"new_unsafe_expr", "from_fn_decl", "from_effect", "new_fn", "new_unsafe_fn"}

\* no chain-creation run takes part: the scanner works on one source file
ChainIdle(at) ==
    /\ process = Running
    /\ packages = <<>>
    /\ root_name = "root"
    /\ force_overwrite = FALSE
    /\ disk = [q \in PolicyPaths |-> NoFile]
    /\ manifest = NoManifest
    /\ chain = EmptyMap
    /\ graph = EmptyGraph
    /\ package_map = EmptyMap
    /\ traverse = NoTraverse
    /\ pc = at
    /\ err = ""
    /\ synthesized = <<>>
    /\ sinksArg = EmptyMap
    /\ written = EmptyMap

InitEffect ==
    /\ EffectIdle
    /\ ResolverIdle
    /\ ChainIdle("scan")

\* the scanner classifies a call site; an effect it got is stored first
NewCall ==
    /\ pc = "scan"
    /\ removed = <<>>
    /\ result \in {<<>>, <<NoneOpt>>}
    /\ \E callee \in Callees, is_unsafe \in BOOLEAN,
          ffi \in {NoneOpt} \cup {Some(q) : q \in FfiPaths}, sinks \in SinkSets :
          /\ call' = [caller |-> Caller, callee |-> callee, callsite |-> "call",
                      is_unsafe |-> is_unsafe, ffi |-> ffi, sinks |-> sinks]
          /\ result' = <<new_call(Caller, callee, "call", is_unsafe, ffi, sinks)>>
    /\ UNCHANGED <<block, built, removed, chainVars, resolverVars>>

\* the scanner opens an effect block with one of the constructors
NewBlock ==
    /\ pc = "scan"
    /\ block = <<>>
    /\ \E ctor \in Constructors, vis \in SynVisibilities :
          LET fn_decl == FnDecNew("fn", Caller, vis)
          IN  /\ ctor = "from_effect" => result # <<>> /\ result[1] # NoneOpt
              /\ built' = [ctor |-> ctor, fn_decl |-> fn_decl]
              /\ block' =
                    CASE ctor = "new_unsafe_expr" -> new_unsafe_expr("block", fn_decl)
                      [] ctor = "from_fn_decl" -> from_fn_decl(fn_decl)
                      [] ctor = "from_effect" -> from_effect(result[1][1], fn_decl)
                      [] ctor = "new_fn" -> new_fn("fn", Caller, vis)
                      [] OTHER -> new_unsafe_fn("fn", Caller, vis)
              /\ IF ctor = "from_effect"
                 THEN call' = <<>> /\ result' = <<>>
                 ELSE UNCHANGED <<call, result>>
    /\ UNCHANGED <<removed, chainVars, resolverVars>>

\* the effect that new_call returned is moved into the block
PushEffect ==
    /\ pc = "scan"
    /\ removed = <<>>
    /\ block # <<>>
    /\ result # <<>> /\ result[1] # NoneOpt
    /\ Len(block.effects) < MaxEffects
    /\ block' = push_effect(block, result[1][1])
    /\ call' = <<>>
    /\ result' = <<>>
    /\ UNCHANGED <<built, removed, chainVars, resolverVars>>

\* the effects of the block are re-triaged once the file is scanned
FilterEffects ==
    /\ pc = "scan"
    /\ removed = <<>>
    /\ block # <<>>
    /\ call = <<>>
    /\ \E f \in Predicates :
          LET r == filter_effects(block, f)
          IN  /\ block' = r.block
              /\ removed' = [f |-> f, before |-> block.effects,
                             returned |-> r.returned]
    /\ UNCHANGED <<call, result, built, chainVars, resolverVars>>

NextEffect == NewCall \/ NewBlock \/ PushEffect \/ FilterEffects

SpecEffect == InitEffect /\ [][NextEffect]_vars

\* ====================================================== resolve.rs
\* syn::Ident values of the scanned file, with the start of their spans
IdentAt(name, line, col) ==
    [name |-> name, span |-> [start_line |-> line, start_col |-> col]]

Idents == {IdentAt("open", 1, 0), IdentAt("helper", 1, 8)}

\* syn::Path values: non-empty sequences of identifiers
SynPaths == {<<IdentAt("open", 1, 0)>>,
             <<IdentAt("fs", 2, 0), IdentAt("read", 2, 4)>>}

ModIdents == {"m"}
ImplNames == {"T"}
FnIdents == {"f"}
UseStmts == {[name |-> "open", path |-> <<"libc", "open">>]}
ForeignFns == {"open"}

PathOf(segs) == [kind |-> "Path", segs |-> segs]
CanonicalPathOf(segs) == [kind |-> "CanonicalPath", segs |-> segs]

\* CanonicalPath::to_path
to_path(cp) == [cp EXCEPT !.kind = "Path"]

\* SrcLoc::add1
add1(s) == [s EXCEPT !.span.start_col = @ + 1]

\* ---- name_resolution::Resolver: an index from positions to definitions
FullIndex ==
    (<<1, 1>> :> <<"libc", "open">>) @@ (<<1, 9>> :> <<"app", "util", "helper">>)
        @@ (<<2, 5>> :> <<"std", "fs", "read">>)

Resolvers ==
    {[index |-> [q \in ps |-> FullIndex[q]]] :
        ps \in {{}, {<<1, 1>>}, {<<1, 9>>, <<2, 5>>}, DOMAIN FullIndex}}

\* Resolver::resolve_ident: Ok(canonical path) or a typed failure
Resolver_resolve_ident(r, s, i) ==
    LET pos == <<s.span.start_line, s.span.start_col>>
    IN  IF pos \in DOMAIN r.index
        THEN [ok |-> TRUE, val |-> CanonicalPathOf(r.index[pos])]
        ELSE [ok |-> FALSE, val |-> <<"no index entry", i.name>>]

\* ---- hacky_resolver::HackyResolver: a scope stack and an import table
HackyNew(filepath) ==
    [crate |-> "app", scope |-> <<>>, uses |-> {}, ffi |-> {}]

Hacky_push(h, kind, name) ==
    [h EXCEPT !.scope = Append(@, [kind |-> kind, name |-> name])]

Hacky_pop(h, kind) ==
    IF h.scope # <<>> /\ h.scope[Len(h.scope)].kind = kind
    THEN [h EXCEPT !.scope = SubSeq(@, 1, Len(@) - 1)]
    ELSE h

Hacky_scan_use(h, u) == [h EXCEPT !.uses = @ \cup {u}]

Hacky_scan_foreign_fn(h, f) == [h EXCEPT !.ffi = @ \cup {f}]

RECURSIVE ModNames(_)
ModNames(scope) ==
    IF scope = <<>> THEN <<>>
    ELSE (IF Head(scope).kind = "mod" THEN <<Head(scope).name>> ELSE <<>>)
             \o ModNames(Tail(scope))

ModPath(h) == <<h.crate>> \o ModNames(h.scope)

Imported(h, name) == {u \in h.uses : u.name = name}

LookupSegs(h, name) ==
    IF Imported(h, name) # {}
    THEN (CHOOSE u \in Imported(h, name) : TRUE).path
    ELSE ModPath(h) \o <<name>>

Hacky_resolve_ident(h, i) == PathOf(LookupSegs(h, i.name))

Hacky_resolve_path(h, p) ==
    PathOf(LookupSegs(h, p[1].name) \o [k \in 1..(Len(p) - 1) |-> p[k + 1].name])

Hacky_resolve_def(h, i) == CanonicalPathOf(ModPath(h) \o <<i.name>>)

Hacky_resolve_ffi(h, p) ==
    IF p[Len(p)].name \in h.ffi
    THEN Some(CanonicalPathOf(ModPath(h) \o <<p[Len(p)].name>>))
    ELSE NoneOpt

\* the assertion passes (TRUE) when no scope is open
Hacky_assert_top_level_invariant(h) == h.scope = <<>>

\* ---- FileResolver
\* FileResolver::new
FileResolverNew(resolver, filepath) ==
    [filepath |-> filepath, resolver |-> resolver, backup |-> HackyNew(filepath)]

\* faulty variant: the column of the location is not shifted
resolve_core_no_add1(frv, i) ==
    LET s == SrcLocOf(i.span)
        r == Resolver_resolve_ident(frv.resolver, s, i)
    IN  IF r.ok THEN r
        ELSE [ok |-> FALSE, val |-> <<"Failed to resolve ident", i.name, s, r.val>>]

\* FileResolver::resolve_core
resolve_core(frv, i) ==
    LET s == add1(SrcLocOf(i.span))
        r == Resolver_resolve_ident(frv.resolver, s, i)
    IN  IF r.ok THEN r
        ELSE [ok |-> FALSE, val |-> <<"Failed to resolve ident", i.name, s, r.val>>]

\* the lines one fallback writes to stderr
FallbackWarning(cause) ==
    <<<<"Resolution failed for: {}; ", cause>>, <<"Falling back to backup resolver">>>>

\* FileResolver::resolve_or_else: f on the precise result, else g() with a
\* warning; asked lists the resolvers that were called
resolve_or_else(frv, i, f, g) ==
    LET r == resolve_core(frv, i)
    IN  IF r.ok
        THEN [value |-> f[r.val], asked |-> <<"resolver">>, log |-> <<>>]
        ELSE [value |-> g, asked |-> <<"resolver", "backup">>,
              log |-> FallbackWarning(r.val)]

\* the closures handed to resolve_or_else, as functions of the precise result
IndexedPaths == {CanonicalPathOf(FullIndex[q]) : q \in DOMAIN FullIndex}
ToPath == [cp \in IndexedPaths |-> to_path(cp)]
Identity == [cp \in IndexedPaths |-> cp]

\* FileResolver::resolve_ident
resolve_ident(frv, i) ==
    resolve_or_else(frv, i, ToPath, Hacky_resolve_ident(frv.backup, i))

\* FileResolver::resolve_path
resolve_path(frv, p) ==
    resolve_or_else(frv, p[Len(p)], ToPath, Hacky_resolve_path(frv.backup, p))

\* FileResolver::resolve_def
resolve_def(frv, i) ==
    resolve_or_else(frv, i, Identity, Hacky_resolve_def(frv.backup, i))

\* FileResolver::resolve_ffi
resolve_ffi(frv, p) ==
    [value |-> Hacky_resolve_ffi(frv.backup, p), asked |-> <<"backup">>, log |-> <<>>]

\* FileResolver::assert_top_level_invariant
assert_top_level_invariant(frv) ==
    [value |-> Hacky_assert_top_level_invariant(frv.backup),
     asked |-> <<"backup">>, log |-> <<>>]

\* FileResolver::push_mod
push_mod(frv, mod_ident) == [frv EXCEPT !.backup = Hacky_push(@, "mod", mod_ident)]

\* FileResolver::pop_mod
pop_mod(frv) == [frv EXCEPT !.backup = Hacky_pop(@, "mod")]

\* FileResolver::push_impl
push_impl(frv, impl_stmt) == [frv EXCEPT !.backup = Hacky_push(@, "impl", impl_stmt)]

\* faulty variant: the wrong pop is forwarded
pop_impl_pops_mod(frv) == [frv EXCEPT !.backup = Hacky_pop(@, "mod")]

\* FileResolver::pop_impl
pop_impl(frv) == [frv EXCEPT !.backup = Hacky_pop(@, "impl")]

\* FileResolver::push_fn
push_fn(frv, fn_ident) == [frv EXCEPT !.backup = Hacky_push(@, "fn", fn_ident)]

\* FileResolver::pop_fn
pop_fn(frv) == [frv EXCEPT !.backup = Hacky_pop(@, "fn")]

\* FileResolver::scan_use
scan_use(frv, use_stmt) == [frv EXCEPT !.backup = Hacky_scan_use(@, use_stmt)]

\* FileResolver::scan_foreign_fn
scan_foreign_fn(frv, f) == [frv EXCEPT !.backup = Hacky_scan_foreign_fn(@, f)]

\* -------------------------------------------------- resolve.rs: actions
\* a FileResolver fr over some index, and a HackyResolver of the same file
\* that is driven alone with the same calls
InitResolve ==
    /\ EffectIdle
    /\ ChainIdle("resolve")
    /\ \E r \in Resolvers : fr = FileResolverNew(r, "lib.rs")
    /\ alone = HackyNew("lib.rs")
    /\ stderr = <<>>
    /\ answer = <<>>

ScopeStep(frNext, aloneNext) ==
    /\ pc = "resolve"
    /\ fr' = frNext
    /\ alone' = aloneNext
    /\ answer' = <<>>
    /\ UNCHANGED <<stderr, chainVars, effectVars>>

PushMod ==
    /\ Len(alone.scope) < MaxDepth
    /\ \E m \in ModIdents : ScopeStep(push_mod(fr, m), Hacky_push(alone, "mod", m))

PopMod == ScopeStep(pop_mod(fr), Hacky_pop(alone, "mod"))

PushImpl ==
    /\ Len(alone.scope) < MaxDepth
    /\ \E t \in ImplNames : ScopeStep(push_impl(fr, t), Hacky_push(alone, "impl", t))

PopImpl == ScopeStep(pop_impl(fr), Hacky_pop(alone, "impl"))

PushFn ==
    /\ Len(alone.scope) < MaxDepth
    /\ \E f \in FnIdents : ScopeStep(push_fn(fr, f), Hacky_push(alone, "fn", f))

PopFn == ScopeStep(pop_fn(fr), Hacky_pop(alone, "fn"))

ScanUse == \E u \in UseStmts : ScopeStep(scan_use(fr, u), Hacky_scan_use(alone, u))

ScanForeignFn ==
    \E f \in ForeignFns :
        ScopeStep(scan_foreign_fn(fr, f), Hacky_scan_foreign_fn(alone, f))

\* a query: the resolver state stays, the answer and stderr are recorded
QueryStep(op, arg, r) ==
    /\ pc = "resolve"
    /\ Len(stderr) < 2 * MaxWarnings
    /\ answer' = [op |-> op, arg |-> arg, value |-> r.value, asked |-> r.asked,
                  stderr_before |-> stderr]
    /\ stderr' = stderr \o r.log
    /\ UNCHANGED <<fr, alone, chainVars, effectVars>>

ResolveIdent == \E i \in Idents : QueryStep("resolve_ident", i, resolve_ident(fr, i))

ResolvePath == \E p \in SynPaths : QueryStep("resolve_path", p, resolve_path(fr, p))

ResolveDef == \E i \in Idents : QueryStep("resolve_def", i, resolve_def(fr, i))

ResolveFfi == \E p \in SynPaths : QueryStep("resolve_ffi", p, resolve_ffi(fr, p))

AssertTopLevel ==
    QueryStep("assert_top_level_invariant", <<>>, assert_top_level_invariant(fr))

NextResolve ==
    \/ PushMod \/ PopMod \/ PushImpl \/ PopImpl \/ PushFn \/ PopFn
    \/ ScanUse \/ ScanForeignFn
    \/ ResolveIdent \/ ResolvePath \/ ResolveDef \/ ResolveFfi \/ AssertTopLevel

SpecResolve == InitResolve /\ [][NextResolve]_vars

\* =============================================================== claims
\* ------------------------------------------------ vocabulary of the claims
NoDuplicates(q) == \A i, j \in 1..Len(q) : q[i] = q[j] => i = j

\* the keys that the graph has an edge to from key p
EdgeTargets(p) ==
    {graph.nodes[e[2]] : e \in {x \in Range(graph.edges) : graph.nodes[x[1]] = p}}

\* the dependencies that the package registered for key p declares
DeclaredDeps(p) == Range(package_map[graph.node_map[p]].dependencies)

\* every key the lockfile mentions, as a package or as a dependency
Mentioned ==
    {packages[i].name : i \in 1..Len(packages)}
        \cup UNION {Range(packages[i].dependencies) : i \in 1..Len(packages)}

RECURSIVE Closure(_)
Closure(S) ==
    LET T == S \cup UNION {EdgeTargets(p) : p \in S}
    IN  IF T = S THEN S ELSE Closure(T)

\* the root and everything it depends on, directly or not
ReachableFromRoot == Closure({root_name})

GraphBuilt == pc \in {"traverse", "created", "saved"}

\* the loop is about to visit a node that has a package
Visiting ==
    /\ pc = "traverse"
    /\ DfsNext(graph, traverse).node # None
    /\ DfsNext(graph, traverse).node \in DOMAIN package_map

VisitedPackage == package_map[DfsNext(graph, traverse).node]

IsDiamond ==
    /\ EdgeTargets("root") = {"b", "c"}
    /\ EdgeTargets("b") = {"d"}
    /\ EdgeTargets("c") = {"d"}
    /\ EdgeTargets("d") = {}

\* ---------------------------------------------------------------- C1
\* C1: for every edge A -> B of the dependency graph, whenever A has been
\* handed to policy synthesis, B was handed to it earlier in the same run, B's
\* policy is saved on disk, and B is registered in the chain.
DependencyFirst ==
    \A i \in 1..Len(synthesized) :
        \A B \in EdgeTargets(synthesized[i]) :
            /\ \E j \in 1..(i - 1) : synthesized[j] = B
            /\ B \in DOMAIN written
            /\ disk[PolicyPath(B)] = written[B]
            /\ B \in DOMAIN chain

\* a diamond was walked to the end: d, b and c precede the root
DiamondCreated ==
    /\ pc = "created"
    /\ IsDiamond
    /\ Len(synthesized) = 4
    /\ synthesized[4] = "root"

\* ---------------------------------------------------------------- C2
\* C2 (as claimed): a run without the force flag does not fail on a node
\* whose policy file already exists.
ExistingPolicyIsReused ==
    ~(pc = "error" /\ ~force_overwrite /\ err = "Policy file already exists")

\* ---------------------------------------------------------------- C3
\* C3: the sink set handed to the synthesis of a node is the union of the
\* pub_caller_checked sets of the policies of its direct dependencies, each
\* read back through the chain.
SinksAreDependencyUnion ==
    \A p \in DOMAIN sinksArg :
        /\ \A d \in DeclaredDeps(p) : CanReadPolicy(chain, disk, d)
        /\ sinksArg[p] =
              UNION {read_policy(chain, disk, d).pub_caller_checked :
                        d \in DeclaredDeps(p)}

\* the root got the functions of two dependencies, and not the function that
\* the policy of an indirect dependency records
TwoDependencySinks ==
    /\ "root" \in DOMAIN sinksArg
    /\ Cardinality(sinksArg["root"]) = 2
    /\ \E p \in DOMAIN written :
          /\ p \notin DeclaredDeps("root")
          /\ written[p].pub_caller_checked # {}
          /\ written[p].pub_caller_checked \cap sinksArg["root"] = {}

\* ---------------------------------------------------------------- C4
\* C4: a policy file is never changed while the force flag is off, and a
\* visit whose target path is an existing file (force off) or a directory
\* (force on or off) ends the run with an error and leaves the disk alone.
NoOverwriteWithoutForce ==
    [][/\ \A q \in PolicyPaths :
             IsFile(disk[q]) /\ ~force_overwrite => disk'[q] = disk[q]
       /\ Visiting =>
             LET f == disk[PolicyPath(VisitedPackage.name)]
             IN  (IsFile(f) /\ ~force_overwrite) \/ f = IsDir
                    => /\ pc' = "error"
                       /\ err' # ""
                       /\ disk' = disk
                       /\ chain' = chain]_vars

\* the run was refused at a node whose policy file exists
RefusedExistingFile ==
    /\ pc = "error"
    /\ ~force_overwrite
    /\ err = "Policy file already exists"
    /\ \E p \in Names : disk[PolicyPath(p)] = StalePolicy(p)

\* ---------------------------------------------------------------- C5
\* C5: a visit that produces an error ends the run; after that no further
\* node is synthesized and nothing on disk changes, and the run's earlier
\* policy files are still there as they were written.
FailureAbortsRun ==
    /\ [](pc = "error" =>
            \A p \in DOMAIN written : disk[PolicyPath(p)] = written[p])
    /\ [][/\ err' # "" => pc' \in {"error", "panic"}
          /\ pc = "error" =>
                /\ synthesized' = synthesized
                /\ disk' = disk
                /\ chain' = chain]_vars

\* synthesis failed for a node after two earlier nodes were written
FailedAfterTwoWritten ==
    /\ pc = "error"
    /\ err = "policy synthesis failed"
    /\ Cardinality(DOMAIN written) = 2

\* ---------------------------------------------------------------- C6
\* C6: when the policy of a direct dependency of the visited node cannot be
\* read through the chain, the visit ends the run with an error; the node is
\* not handed to synthesis, nothing is saved and nothing is registered.
UnreadableDependencyFails ==
    [][(/\ Visiting
        /\ \E d \in Range(VisitedPackage.dependencies) :
              ~CanReadPolicy(chain, disk, d))
          => /\ pc' = "error"
             /\ err' # ""
             /\ synthesized' = synthesized
             /\ written' = written
             /\ chain' = chain
             /\ \A q \in PolicyPaths : disk'[q] \in {disk[q], NoFile}]_vars

\* the run ended in collect_dependency_sinks
DependencyReadFailed ==
    /\ pc = "error"
    /\ err = "couldnt read dependency policy file"

\* ---------------------------------------------------------------- C7
\* C7: the graph has exactly one node for every key the lockfile mentions,
\* no key is handed to synthesis twice, and a run that gets to the end has
\* synthesized every key reachable from the root exactly once.
OneNodeOneSynthesis ==
    /\ GraphBuilt =>
          /\ NoDuplicates(graph.nodes)
          /\ Range(graph.nodes) = Mentioned
    /\ NoDuplicates(synthesized)
    /\ pc = "created" => Range(synthesized) = ReachableFromRoot

\* a diamond whose shared dependency is listed first, walked to the end
SharedDependencyOnce ==
    /\ pc = "created"
    /\ IsDiamond
    /\ packages[1].name = "d"
    /\ Cardinality({i \in 1..Len(synthesized) : synthesized[i] = "d"}) = 1

\* ---------------------------------------------------------------- C8
\* C8 (as claimed): after a successful run every package of the dependency
\* graph has a saved policy file that the chain maps its key to.
EveryGraphNodeHasPolicy ==
    pc = "created" =>
        \A p \in Range(graph.nodes) :
            /\ IsFile(disk[PolicyPath(p)])
            /\ p \in DOMAIN chain
            /\ chain[p] = PolicyPath(p)

\* C8 (amended): after a successful run, the root and every package
\* reachable from it have a policy file saved by this run that the chain
\* maps their key to, and the chain registers nothing else.
EveryReachableNodeHasPolicy ==
    pc \in {"created", "saved"} =>
        /\ root_name \in Mentioned
        /\ DOMAIN chain = ReachableFromRoot
        /\ \A p \in ReachableFromRoot :
              /\ p \in DOMAIN written
              /\ IsFile(disk[PolicyPath(p)])
              /\ disk[PolicyPath(p)] = written[p]
              /\ chain[p] = PolicyPath(p)

\* a run succeeded although the lockfile lists a package the root does not
\* depend on
CreatedWithUnreachablePackage ==
    /\ pc = "created"
    /\ Len(synthesized) >= 2
    /\ Range(graph.nodes) # ReachableFromRoot

\* ---------------------------------------------------------------- C9
\* C9: a key is registered in the chain only with its policy file saved, and
\* the manifest changes only in the step that ends a successful run, to the
\* chain of that run.
ManifestOnlyOnSuccess ==
    /\ [](\A p \in DOMAIN chain :
            /\ p \in DOMAIN written
            /\ disk[chain[p]] = written[p])
    /\ [][manifest' # manifest =>
            /\ pc = "created"
            /\ pc' = "saved"
            /\ manifest' = [exists |-> TRUE, chain |-> chain]]_vars

\* a node failed after another was registered; the old manifest is untouched
FailedWithOldManifest ==
    /\ pc = "error"
    /\ chain # EmptyMap
    /\ manifest = StaleManifest

\* ---------------------------------------------------------------- C10
\* C10 (as claimed): a run over a lockfile that lacks the entry of the root
\* or of a declared dependency ends with a returned error, never otherwise.
InconsistencyIsReturnedError ==
    pc # "panic"

\* ---------------------------------------------------------------- C11
\* C11 (as claimed): the process exits with status zero exactly when the
\* command succeeded, and a failed command has printed an error message.
ExitStatusTellsOutcome ==
    process.exited =>
        IF pc = "saved"
        THEN process.code = 0
        ELSE process.code # 0 /\ process.printed # <<>>

\* ---------------------------------------------------------------- C18
\* C18 (as claimed): a visit that ends with an error leaves the policy path
\* of the visited package as it was.
FailedCallKeepsPolicyFile ==
    [][Visiting /\ pc' = "error" =>
          disk'[PolicyPath(VisitedPackage.name)]
              = disk[PolicyPath(VisitedPackage.name)]]_vars

\* ---------------------------------------------------------------- C19
\* the keys reachable from the root that lie on a cycle of the graph
OnCycle == {p \in ReachableFromRoot : p \in Closure(EdgeTargets(p))}

\* C19: when a cycle is reachable from the root, the run never gets to
\* return Ok: no key of a cycle is ever handed to synthesis or registered,
\* the manifest is not written, and the process ends in an error or a panic.
CycleNeverSucceeds ==
    OnCycle # {} =>
        /\ pc \notin {"created", "saved"}
        /\ OnCycle \cap Range(synthesized) = {}
        /\ OnCycle \cap DOMAIN chain = {}
        /\ manifest \in {NoManifest, StaleManifest}
        /\ process.exited => pc \in {"error", "panic"}

\* root and b depend on each other: b is reached first, the root's policy is
\* not registered yet, and the process has ended with that error
CycleThroughRootFailed ==
    /\ "b" \in EdgeTargets("root")
    /\ "root" \in EdgeTargets("b")
    /\ pc = "error"
    /\ err = "couldnt read dependency policy file"
    /\ synthesized = <<>>
    /\ process.exited


\* ------------------------------------------------ effect.rs vocabulary
\* a call site has been classified and its result is still at hand
Classified == call # <<>> /\ result # <<>>

\* the tag of the effect new_call returned, "" when it returned None
ResultTag == IF result[1] = NoneOpt THEN "" ELSE result[1][1].eff_type.tag

RECURSIVE IsSubseq(_, _)
IsSubseq(a, b) ==
    IF a = <<>> THEN TRUE
    ELSE IF b = <<>> THEN FALSE
    ELSE IF Head(a) = Head(b) THEN IsSubseq(Tail(a), Tail(b))
    ELSE IsSubseq(a, Tail(b))

Count(e, items) == Cardinality({i \in DOMAIN items : items[i] = e})

\* the block type each constructor is documented to give
DocumentedType(ctor) ==
    CASE ctor = "new_unsafe_expr" -> "UnsafeExpr"
      [] ctor = "new_unsafe_fn" -> "UnsafeFn"
      [] OTHER -> "NormalFn"

\* C12: new_call returns at most one effect, and when the callee matches a
\* sink pattern it is SinkCall with the matched pattern, a pattern of the
\* given sinks that is a prefix of the callee, whatever the FFI marker and the
\* unsafe flag are
SinkMatchWins ==
    Classified =>
        /\ Len(result[1]) <= 1
        /\ new_match(call.callee, call.sinks) # NoneOpt =>
              /\ result[1] # NoneOpt
              /\ result[1][1].eff_type =
                    [tag |-> "SinkCall", arg |-> new_match(call.callee, call.sinks)[1]]
              /\ result[1][1].eff_type.arg \in call.sinks
              /\ IsPrefix(result[1][1].eff_type.arg, call.callee)
              /\ result[1][1].callee = call.callee
              /\ result[1][1].caller = call.caller

\* C12 witness: a callee that is both a sink and an FFI declaration, in an
\* unsafe context, was classified SinkCall
SinkCallDespiteFfi ==
    /\ Classified
    /\ call.ffi # NoneOpt
    /\ call.is_unsafe
    /\ ResultTag = "SinkCall"

\* C13: when the callee matches no sink pattern, new_call returns FFICall
\* of the FFI path if an FFI marker is present (unsafe or not), UnsafeCall of
\* the callee if there is no marker and the call is unsafe, and nothing
\* otherwise
NoSinkPriority ==
    Classified /\ (\A pat \in call.sinks : ~IsPrefix(pat, call.callee)) =>
        IF call.ffi # NoneOpt
        THEN /\ result[1] # NoneOpt
             /\ result[1][1].eff_type = [tag |-> "FFICall", arg |-> call.ffi[1]]
        ELSE IF call.is_unsafe
        THEN /\ result[1] # NoneOpt
             /\ result[1][1].eff_type = [tag |-> "UnsafeCall", arg |-> call.callee]
        ELSE result[1] = NoneOpt

\* C13 witness: an FFI call outside any unsafe context was recorded as FFICall
FfiCallOutsideUnsafe ==
    /\ Classified
    /\ call.ffi # NoneOpt
    /\ ~call.is_unsafe
    /\ ResultTag = "FFICall"

\* C16 (as claimed): filter_effects(f) returns exactly the effects that
\* match f and leaves the others in the block
FilterReturnsMatching ==
    removed # <<>> =>
        /\ \A i \in DOMAIN removed.returned : Holds(removed.f, removed.returned[i])
        /\ \A i \in DOMAIN block.effects : ~Holds(removed.f, block.effects[i])

\* C16 (amended): filter_effects(f) returns exactly the effects that do NOT
\* match f and keeps the matching ones; both keep their original relative
\* order and together they are the effects the block held before the call
FilterReturnsRejected ==
    removed # <<>> =>
        /\ \A i \in DOMAIN removed.returned : ~Holds(removed.f, removed.returned[i])
        /\ \A i \in DOMAIN block.effects : Holds(removed.f, block.effects[i])
        /\ IsSubseq(removed.returned, removed.before)
        /\ IsSubseq(block.effects, removed.before)
        /\ Len(removed.returned) + Len(block.effects) = Len(removed.before)
        /\ \A e \in Range(removed.before) :
              Count(e, removed.before) =
                  Count(e, removed.returned) + Count(e, block.effects)

\* C16 witness: a filter split a block of two effects into one kept and one
\* returned
FilterSplitBlock ==
    /\ removed # <<>>
    /\ Len(removed.before) = 2
    /\ Len(removed.returned) = 1
    /\ Len(block.effects) = 1
    /\ removed.returned # block.effects

\* C17 (as claimed): the block type is the one documented for the
\* constructor that built the block (new_unsafe_fn gives UnsafeFn), and the
\* block type and containing FnDec survive every push and filter
BlockTypeRecordsRegion ==
    built # <<>> =>
        /\ block.block_type = DocumentedType(built.ctor)
        /\ block.containing_fn = built.fn_decl


\* ----------------------------------------------- resolve.rs vocabulary
Resolving == pc = "resolve" /\ answer # <<>>

FallbackOps == {"resolve_ident", "resolve_path", "resolve_def"}

\* the identifier a fallback operation hands to the precise resolver
AskedIdent ==
    IF answer.op = "resolve_path" THEN answer.arg[Len(answer.arg)] ELSE answer.arg

\* what the precise resolver says about that identifier, asked directly
PreciseAnswer ==
    Resolver_resolve_ident(fr.resolver, add1(SrcLocOf(AskedIdent.span)), AskedIdent)

\* what the heuristic resolver that is driven alone answers to the same call
HeuristicAnswer ==
    CASE answer.op = "resolve_ident" -> Hacky_resolve_ident(alone, answer.arg)
      [] answer.op = "resolve_path" -> Hacky_resolve_path(alone, answer.arg)
      [] answer.op = "resolve_def" -> Hacky_resolve_def(alone, answer.arg)
      [] answer.op = "resolve_ffi" -> Hacky_resolve_ffi(alone, answer.arg)
      [] OTHER -> Hacky_assert_top_level_invariant(alone)

\* the lines the call added to stderr
Logged == SubSeq(stderr, Len(answer.stderr_before) + 1, Len(stderr))

\* C14: resolve_ident, resolve_path and resolve_def return the precise
\* resolver's result (converted to the return type) without consulting the
\* heuristic resolver and without logging when the precise resolver succeeds;
\* when it fails they return exactly the heuristic resolver's answer, add one
\* fallback warning (cause line and notice line) to stderr, and still return a
\* path
FallbackAnswers ==
    Resolving /\ answer.op \in FallbackOps =>
        /\ SubSeq(stderr, 1, Len(answer.stderr_before)) = answer.stderr_before
        /\ answer.value.kind =
              (IF answer.op = "resolve_def" THEN "CanonicalPath" ELSE "Path")
        /\ IF PreciseAnswer.ok
           THEN /\ answer.value.segs = PreciseAnswer.val.segs
                /\ answer.asked = <<"resolver">>
                /\ Logged = <<>>
           ELSE /\ answer.value = HeuristicAnswer
                /\ answer.asked = <<"resolver", "backup">>
                /\ Len(Logged) = 2
                /\ Logged[1][1] = "Resolution failed for: {}; "
                /\ Logged[2] = <<"Falling back to backup resolver">>

\* C14 witness: an identifier missing from the index was resolved through
\* the import table of the heuristic resolver, after an earlier warning
FellBackToHeuristic ==
    /\ Resolving
    /\ answer.op = "resolve_ident"
    /\ answer.asked = <<"resolver", "backup">>
    /\ answer.value = PathOf(<<"libc", "open">>)
    /\ Len(stderr) = 4

\* C15: the scope state of the FileResolver is always the state of the
\* heuristic resolver driven alone by the same calls, no call changes the
\* precise resolver or the file path, and resolve_ffi and
\* assert_top_level_invariant are answered by the heuristic resolver only
ScopeCallsForwarded ==
    /\ [](pc = "resolve" =>
            /\ fr.backup = alone
            /\ Resolving /\ answer.op \notin FallbackOps =>
                  /\ answer.value = HeuristicAnswer
                  /\ answer.asked = <<"backup">>
                  /\ stderr = answer.stderr_before)
    /\ [][pc = "resolve" =>
            fr'.resolver = fr.resolver /\ fr'.filepath = fr.filepath]_vars

\* C15 witness: inside an impl nested in a module, with a foreign function
\* declared, resolve_ffi found the declaration
FfiResolvedInNestedScope ==
    /\ Resolving
    /\ answer.op = "resolve_ffi"
    /\ answer.value # NoneOpt
    /\ Len(fr.backup.scope) = 2
    /\ fr.backup.scope[1].kind = "mod"
    /\ fr.backup.scope[2].kind = "impl"

====
